---- MODULE Spec2Model ----
(***************************************************************************)
(* Model of prediction-error/index.js: a Monte Carlo experiment that       *)
(* trains a reference Categorical from each population, draws samples of   *)
(* several sizes from it, trains a candidate Categorical from each sample, *)
(* scores the candidate against the reference with a log-odds reward, and  *)
(* prints the averaged rewards.                                            *)
(*                                                                         *)
(* Real numbers are fixed-point integers, 100000 units per 1.0.             *)
(* Probabilities are exact fractions <<n, d>> in lowest terms.             *)
(***************************************************************************)
EXTENDS Integers, Sequences, FiniteSets, TLC

\* ---------------------------------------------------------------- bounds

\* Trials per (population, sample size, kind); 1000 in the source.
SAMPLES_PER_SIZE == 2

\* Largest total weight of the distribution the pure functions are tried on.
MaxFnWeight == 4

\* Largest denominator of the probabilities the reward function is tried on.
MaxDen == 4

\* ------------------------------------------------------------- constants

\* var prec = 0.0001, as the fraction 1 / PREC_DEN.
PREC_DEN == 10000

\* Events A .. C of the source's alphabet.
Events == {"a", "b", "c"}

\* The configurations the run is checked on: each a list of populations.
\* (The source has one, of four populations over five events.)
Configs ==
  { << <<"c">>, <<"a", "a", "b">> >>,
    << <<"b", "a">>, <<"c", "a", "b">> >> }

\* The sample sizes, ascending ([2, 4, 8, ..., 512] in the source).
SAMPLE_SIZES == <<1, 2>>

\* ------------------------------------------------------------ arithmetic

GCD[x \in Nat, y \in Nat] == IF y = 0 THEN x ELSE GCD[y, x % y]

\* The fraction n / d in lowest terms: the one number a float division
\* n / d yields whatever the common factor of n and d.
Frac(n, d) == <<n \div GCD[n, d], d \div GCD[n, d]>>

Abs(x) == IF x < 0 THEN -x ELSE x

RECURSIVE SumSeq(_)
SumSeq(s) == IF s = <<>> THEN 0 ELSE Head(s) + SumSeq(Tail(s))

\* floor(log2(k)) for k >= 1.
FloorLog2[k \in Nat] == IF k < 2 THEN 0 ELSE 1 + FloorLog2[k \div 2]

\* The fractional bits of log2(m), m in [1, 2) held as M = m * 2^14, by
\* repeated squaring; i counts the bits still to produce.
Log2Frac[M \in Nat, i \in Nat] ==
  IF i = 0 THEN 0
  ELSE LET sq == (M * M) \div (2 ^ 14)
       IN IF sq >= 2 ^ 15
          THEN 2 ^ (i - 1) + Log2Frac[sq \div 2, i - 1]
          ELSE Log2Frac[sq, i - 1]

\* Math.log(k) for an integer k >= 1, in fixed point: log2(k) * ln(2).
MathLog[k \in Nat] ==
  LET e == FloorLog2[k]
      frac == Log2Frac[(k * (2 ^ 14)) \div (2 ^ e), 14]
  IN e * 69315 + (frac * 69315) \div (2 ^ 14)

\* exp(-r) for 0 <= r4 < ln 2, r4 and the result in units of 1/10000:
\* the Taylor series from its term number i on.
ExpSeries[r4 \in Nat, term \in Int, i \in Nat] ==
  IF term = 0 \/ i > 12 THEN 0
  ELSE term + ExpSeries[r4, -((term * r4) \div (10000 * i)), i + 1]

\* Math.exp(-y4) for y4 >= 0 in units of 1/10000, result in the same units.
MathExpNeg[y4 \in Nat] ==
  LET k == y4 \div 6931
      r4 == y4 % 6931
  IN IF k > 13 THEN 0 ELSE ExpSeries[r4, 10000, 1] \div (2 ^ k)

\* _.mean of a list of fixed-point numbers.
Mean(s) == SumSeq(s) \div Len(s)

RECURSIVE Digits(_)
Digits(v) == IF v < 10 THEN 1 ELSE 1 + Digits(v \div 10)

\* Number.prototype.toPrecision(5) of a non-negative fixed-point number:
\* the number the printed string denotes, i.e. v rounded to five
\* significant digits.
ToPrecision5(v) ==
  LET m == Digits(v)
  IN IF m <= 5 THEN v
     ELSE LET unit == 10 ^ (m - 5)
          IN ((v + unit \div 2) \div unit) * unit

\* ----------------------------------------------------------- Categorical

\* new Categorical(): no weights, total 0.
NewCategorical == [w |-> <<>>, wsum |-> 0]

Weight(cat, ev) == IF ev \in DOMAIN cat.w THEN cat.w[ev] ELSE 0

\* cat.learn(ev): the event's weight and the total go up by 1.
Learn(cat, ev) ==
  [w |-> [e \in DOMAIN cat.w \cup {ev} |-> Weight(cat, e) + (IF e = ev THEN 1 ELSE 0)],
   wsum |-> cat.wsum + 1]

\* cat.prob(ev): weight / total, 0 for an event never seen.
Prob(cat, ev) ==
  IF cat.wsum = 0 THEN <<0, 1>> ELSE Frac(Weight(cat, ev), cat.wsum)

\* cat.events(): the distinct events observed.
EventsOf(cat) == DOMAIN cat.w

\* cat.weightSum()
WeightSum(cat) == cat.wsum

\* The events cat.sample() can return: those of non-zero weight.
SampleSet(cat) == {e \in DOMAIN cat.w : cat.w[e] > 0}

RECURSIVE WLogW(_, _)
WLogW(cat, evs) ==
  IF evs = {} THEN 0
  ELSE LET e == CHOOSE x \in evs : TRUE
       IN cat.w[e] * MathLog[cat.w[e]] + WLogW(cat, evs \ {e})

\* cat.entropy(): -sum p ln p = ln(total) - (sum w ln w) / total.
Entropy(cat) ==
  IF cat.wsum = 0 THEN 0
  ELSE MathLog[cat.wsum] - WLogW(cat, SampleSet(cat)) \div cat.wsum

\* ------------------------------------------------------- pure functions

\* _.clamp(p, prec, 1 - prec) of the fraction p.
Clamp[p \in Nat \X Nat] ==
  IF p[1] * PREC_DEN < p[2] THEN <<1, PREC_DEN>>
  ELSE IF p[1] * PREC_DEN > (PREC_DEN - 1) * p[2] THEN <<PREC_DEN - 1, PREC_DEN>>
  ELSE p

\* Math.log(p / (1 - p)) of a fraction strictly between 0 and 1.
Logit[p \in Nat \X Nat] == MathLog[p[1]] - MathLog[p[2] - p[1]]

\* reward with prior clamped to [0.001, 0.999], ten times coarser than p.
ClampCoarse(p) ==
  IF p[1] * 1000 < p[2] THEN <<1, 1000>>
  ELSE IF p[1] * 1000 > 999 * p[2] THEN <<999, 1000>>
  ELSE p

rewardCoarsePrior(prior, p) == Logit[Clamp[p]] - Logit[ClampCoarse(prior)]

reward(prior, p) == Logit[Clamp[p]] - Logit[Clamp[prior]]

\* lnx * lnx / 6 for lnx in units of 1/10000, in the same units.
SquareOverSix[lnx \in Nat] == ((lnx * lnx) \div 10000) \div 6

slack(x) == ((95 * MathExpNeg[SquareOverSix[MathLog[x] \div 10]]) \div 100) * 10

\* The reduce of expectedReward with the population's probability read
\* for one fixed event instead of the event at hand.
RewardSumFixedPrior(pop, sam, evs, n) ==
  LET term[ev \in evs] ==
        LET pp == Prob(pop, CHOOSE x \in EventsOf(pop) : TRUE)
            p == Prob(sam, ev)
            rew == Abs(reward(pp, p))
        IN rew \div n
      acc[left \in SUBSET evs] ==
        IF left = {} THEN 0
        ELSE LET ev == CHOOSE x \in left : TRUE
             IN acc[left \ {ev}] + term[ev]
  IN acc[evs]

\* evs.reduce(function (acc, ev) { ... return acc + (rew / evs.length); }, 0)
\* with n = evs.length: term is the callback's addend for one event, acc
\* the accumulator over the events still to visit.
RewardSum(pop, sam, evs, n) ==
  LET term[ev \in evs] ==
        LET pp == Prob(pop, ev)
            p == Prob(sam, ev)
            rew == Abs(reward(pp, p))
        IN rew \div n
      acc[left \in SUBSET evs] ==
        IF left = {} THEN 0
        ELSE LET ev == CHOOSE x \in left : TRUE
             IN acc[left \ {ev}] + term[ev]
  IN acc[evs]

expectedReward(pop, sam) ==
  RewardSum(pop, sam, EventsOf(pop), Cardinality(EventsOf(pop)))

\* ----------------------------------------------------------------- state

VARIABLES
  populations,  \* the configured list of populations
  pc,           \* the driver's position
  pi,           \* index of the population being processed
  si,           \* index into SAMPLE_SIZES
  kind,         \* "plain": the exRews trials, "slack": the slackRews trials
  t,            \* number of the trial within its kind, from 1
  k,            \* index of a forEach over pop or sample
  heap,         \* the reachable Categorical objects, by object id
  nextId,       \* id of the next object created
  popcat,       \* id of the reference Categorical (0: none)
  samcat,       \* id of the candidate Categorical (0: none)
  sample,       \* the events drawn in this trial
  exRews,       \* plain rewards collected for this sample size
  slackRews,    \* slack-corrected rewards collected for this sample size
  triples,      \* [sampleSize, exexRew, exSlackRew, exRews] so far
  results,      \* [pop, triples, entropy] per finished population
  out,          \* the lines written with console.log
  ri,           \* reporter: index into results
  rj,           \* reporter: index into the triples of results[ri]
  hist,         \* history: what was called and created, for the properties
  fn            \* the pure functions' inputs and outputs, tried on their own

vars == <<populations, pc, pi, si, kind, t, k, heap, nextId, popcat, samcat,
          sample, exRews, slackRews, triples, results, out, ri, rj, hist, fn>>

driverVars == <<populations, pc, pi, si, kind, t, k, heap, nextId, popcat,
                samcat, sample, exRews, slackRews, triples, results, out, ri,
                rj, hist>>

NPop == Len(populations)
NSizes == Len(SAMPLE_SIZES)
pop == populations[pi]
sampleSize == SAMPLE_SIZES[si]

\* hist: trials    the trials started, each <<pi, si, kind, t>>
\*       draws     popcat.sample() calls for this (population, sample size)
\*       own       sample() calls and candidates created within this trial
\*       trained   the reference right after its training, <<>> before
\*       slackArg  the argument of the last call of slack, 0 before any
\*       entropyOf the reference as it was when entropy() read it
HistStart ==
  [trials |-> <<>>, draws |-> 0, own |-> <<0, 0>>, trained |-> <<>>,
   slackArg |-> 0, entropyOf |-> <<>>]

FnStart ==
  [D |-> NewCategorical, prior |-> <<0, 1>>, p |-> <<0, 1>>, rew |-> 0,
   rewSwap |-> 0, er |-> 0, op |-> "none"]

DriverInit(start, configs) ==
  /\ populations \in configs
  /\ pc = start
  /\ pi = 1 /\ si = 1 /\ kind = "plain" /\ t = 1 /\ k = 1
  /\ heap = <<>> /\ nextId = 1 /\ popcat = 0 /\ samcat = 0
  /\ sample = <<>> /\ exRews = <<>> /\ slackRews = <<>>
  /\ triples = <<>> /\ results = <<>> /\ out = <<>>
  /\ ri = 1 /\ rj = 1
  /\ hist = HistStart

Init == DriverInit("popStart", Configs) /\ fn = FnStart

\* --------------------------------------------------------------- driver

\* The reference created and never trained.
NewPopcatUntrained ==
  /\ pc = "popStart"
  /\ heap' = (nextId :> NewCategorical)
  /\ popcat' = nextId
  /\ nextId' = nextId + 1
  /\ k' = 1
  /\ pc' = "sample"
  /\ hist' = [hist EXCEPT !.trained = <<>>, !.entropyOf = <<>>, !.draws = 0]
  /\ UNCHANGED <<populations, pi, si, kind, t, samcat, sample, exRews,
                 slackRews, triples, results, out, ri, rj, fn>>

\* var popcat = new Categorical();
NewPopcat ==
  /\ pc = "popStart"
  /\ heap' = (nextId :> NewCategorical)
  /\ popcat' = nextId
  /\ nextId' = nextId + 1
  /\ k' = 1
  /\ pc' = IF Len(pop) = 0 THEN "sample" ELSE "popLearn"
  /\ hist' = [hist EXCEPT !.trained = <<>>, !.entropyOf = <<>>, !.draws = 0]
  /\ UNCHANGED <<populations, pi, si, kind, t, samcat, sample, exRews,
                 slackRews, triples, results, out, ri, rj, fn>>

\* The training loop learning the population's first event every time.
PopLearnFirstEvent ==
  /\ pc = "popLearn"
  /\ heap' = [heap EXCEPT ![popcat] = Learn(@, pop[1])]
  /\ IF k < Len(pop)
     THEN /\ k' = k + 1
          /\ UNCHANGED <<pc, hist>>
     ELSE /\ k' = 1
          /\ pc' = "sample"
          /\ hist' = [hist EXCEPT !.trained = heap'[popcat]]
  /\ UNCHANGED <<populations, pi, si, kind, t, nextId, popcat, samcat, sample,
                 exRews, slackRews, triples, results, out, ri, rj, fn>>

\* pop.forEach(function (ev) { popcat.learn(ev); }), one event per step.
PopLearn ==
  /\ pc = "popLearn"
  /\ heap' = [heap EXCEPT ![popcat] = Learn(@, pop[k])]
  /\ IF k < Len(pop)
     THEN /\ k' = k + 1
          /\ UNCHANGED <<pc, hist>>
     ELSE /\ k' = 1
          /\ pc' = "sample"
          /\ hist' = [hist EXCEPT !.trained = heap'[popcat]]
  /\ UNCHANGED <<populations, pi, si, kind, t, nextId, popcat, samcat, sample,
                 exRews, slackRews, triples, results, out, ri, rj, fn>>

\* The sampling loop running once more than sampleSize.
DrawOneMore ==
  /\ pc = "sample"
  /\ IF SampleSet(heap[popcat]) = {}
     THEN /\ pc' = "error"
          /\ UNCHANGED <<sample, hist>>
     ELSE \E ev \in SampleSet(heap[popcat]) :
            /\ sample' = Append(sample, ev)
            /\ hist' = [hist EXCEPT !.draws = @ + 1, !.own[1] = @ + 1]
            /\ pc' = IF Len(sample') = sampleSize + 1 THEN "newSam" ELSE "sample"
  /\ UNCHANGED <<populations, pi, si, kind, t, k, heap, nextId, popcat, samcat,
                 exRews, slackRews, triples, results, out, ri, rj, fn>>

\* _.times(sampleSize, function () { return popcat.sample(); }), one draw
\* per step. sample() of a Categorical of total weight 0 fails.
Draw ==
  /\ pc = "sample"
  /\ IF SampleSet(heap[popcat]) = {}
     THEN /\ pc' = "error"
          /\ UNCHANGED <<sample, hist>>
     ELSE \E ev \in SampleSet(heap[popcat]) :
            /\ sample' = Append(sample, ev)
            /\ hist' = [hist EXCEPT !.draws = @ + 1, !.own[1] = @ + 1]
            /\ pc' = IF Len(sample') = sampleSize THEN "newSam" ELSE "sample"
  /\ UNCHANGED <<populations, pi, si, kind, t, k, heap, nextId, popcat, samcat,
                 exRews, slackRews, triples, results, out, ri, rj, fn>>

\* The candidate bound to the reference object instead of a new one.
NewSamcatAlias ==
  /\ pc = "newSam"
  /\ heap' = heap
  /\ samcat' = popcat
  /\ nextId' = nextId + 1
  /\ k' = 1
  /\ pc' = "samLearn"
  /\ hist' = [hist EXCEPT !.trials = Append(@, <<pi, si, kind, t>>),
                          !.own[2] = @ + 1]
  /\ UNCHANGED <<populations, pi, si, kind, t, popcat, sample, exRews,
                 slackRews, triples, results, out, ri, rj, fn>>

\* var samcat = new Categorical();
NewSamcat ==
  /\ pc = "newSam"
  /\ heap' = heap @@ (nextId :> NewCategorical)
  /\ samcat' = nextId
  /\ nextId' = nextId + 1
  /\ k' = 1
  /\ pc' = "samLearn"
  /\ hist' = [hist EXCEPT !.trials = Append(@, <<pi, si, kind, t>>),
                          !.own[2] = @ + 1]
  /\ UNCHANGED <<populations, pi, si, kind, t, popcat, sample, exRews,
                 slackRews, triples, results, out, ri, rj, fn>>

\* The candidate's training loop calling learn twice per event.
SamLearnTwice ==
  /\ pc = "samLearn"
  /\ heap' = [heap EXCEPT ![samcat] = Learn(Learn(@, sample[k]), sample[k])]
  /\ IF k < Len(sample)
     THEN k' = k + 1 /\ pc' = pc
     ELSE k' = 1 /\ pc' = "score"
  /\ UNCHANGED <<populations, pi, si, kind, t, nextId, popcat, samcat, sample,
                 exRews, slackRews, triples, results, out, ri, rj, hist, fn>>

\* sample.forEach(function (ev) { samcat.learn(ev); }), one event per step.
SamLearn ==
  /\ pc = "samLearn"
  /\ heap' = [heap EXCEPT ![samcat] = Learn(@, sample[k])]
  /\ IF k < Len(sample)
     THEN k' = k + 1 /\ pc' = pc
     ELSE k' = 1 /\ pc' = "score"
  /\ UNCHANGED <<populations, pi, si, kind, t, nextId, popcat, samcat, sample,
                 exRews, slackRews, triples, results, out, ri, rj, hist, fn>>

\* The trial's callback returns: its sample and candidate go out of scope.
EndTrial ==
  /\ sample' = <<>>
  /\ samcat' = 0
  /\ heap' = [id \in DOMAIN heap \ {samcat} |-> heap[id]]
  /\ k' = 1
  /\ UNCHANGED <<populations, pi, si, nextId, popcat, triples, results, out,
                 ri, rj, fn>>

\* One loop of trials feeding both lists: the slack-corrected reward is
\* taken from the plain trial's sample and candidate.
ScorePlainShared ==
  /\ pc = "score" /\ kind = "plain"
  /\ LET rew == expectedReward(heap[popcat], heap[samcat])
         x == WeightSum(heap[samcat])
     IN /\ exRews' = Append(exRews, rew)
        /\ slackRews' = Append(slackRews, rew + slack(x))
        /\ hist' = [hist EXCEPT !.own = <<0, 0>>, !.slackArg = x]
  /\ IF t < SAMPLES_PER_SIZE
     THEN t' = t + 1 /\ pc' = "sample"
     ELSE t' = 1 /\ pc' = "mean"
  /\ kind' = kind
  /\ EndTrial

\* return expectedReward(popcat, samcat);  (a trial of exRews)
ScorePlain ==
  /\ pc = "score" /\ kind = "plain"
  /\ exRews' = Append(exRews, expectedReward(heap[popcat], heap[samcat]))
  /\ IF t < SAMPLES_PER_SIZE
     THEN t' = t + 1 /\ kind' = kind
     ELSE t' = 1 /\ kind' = "slack"
  /\ pc' = "sample"
  /\ hist' = [hist EXCEPT !.own = <<0, 0>>]
  /\ EndTrial
  /\ UNCHANGED slackRews

\* The slack trials running once more than SAMPLES_PER_SIZE.
ScoreSlackOneMore ==
  /\ pc = "score" /\ kind = "slack"
  /\ LET rew == expectedReward(heap[popcat], heap[samcat])
         x == WeightSum(heap[samcat])
     IN /\ slackRews' = Append(slackRews, rew + slack(x))
        /\ hist' = [hist EXCEPT !.own = <<0, 0>>, !.slackArg = x]
  /\ IF t <= SAMPLES_PER_SIZE
     THEN t' = t + 1 /\ pc' = "sample"
     ELSE t' = 1 /\ pc' = "mean"
  /\ kind' = kind
  /\ EndTrial
  /\ UNCHANGED exRews

\* var rew = expectedReward(popcat, samcat);
\* return rew + slack(samcat.weightSum());  (a trial of slackRews)
ScoreSlack ==
  /\ pc = "score" /\ kind = "slack"
  /\ LET rew == expectedReward(heap[popcat], heap[samcat])
         x == WeightSum(heap[samcat])
     IN /\ slackRews' = Append(slackRews, rew + slack(x))
        /\ hist' = [hist EXCEPT !.own = <<0, 0>>, !.slackArg = x]
  /\ IF t < SAMPLES_PER_SIZE
     THEN t' = t + 1 /\ pc' = "sample"
     ELSE t' = 1 /\ pc' = "mean"
  /\ kind' = kind
  /\ EndTrial
  /\ UNCHANGED exRews

\* return [sampleSize, _.mean(exRews), _.mean(slackRews), exRews];
MeanStep ==
  /\ pc = "mean"
  /\ triples' = Append(triples,
                  <<sampleSize, Mean(exRews), Mean(slackRews), exRews>>)
  /\ exRews' = <<>>
  /\ slackRews' = <<>>
  /\ kind' = "plain"
  /\ IF si < NSizes
     THEN si' = si + 1 /\ pc' = "sample"
     ELSE si' = 1 /\ pc' = "entropy"
  /\ hist' = [hist EXCEPT !.draws = 0]
  /\ UNCHANGED <<populations, pi, t, k, heap, nextId, popcat, samcat, sample,
                 results, out, ri, rj, fn>>

\* var entropy = popcat.entropy(); return [pop, triples, entropy];
EntropyStep ==
  /\ pc = "entropy"
  /\ results' = Append(results, <<pop, triples, Entropy(heap[popcat])>>)
  /\ hist' = [hist EXCEPT !.entropyOf = heap[popcat]]
  /\ triples' = <<>>
  /\ heap' = <<>>
  /\ popcat' = 0
  /\ IF pi < NPop
     THEN pi' = pi + 1 /\ pc' = "popStart"
     ELSE pi' = pi /\ pc' = "reportHead"
  /\ UNCHANGED <<populations, si, kind, t, k, nextId, samcat, sample, exRews,
                 slackRews, out, ri, rj, fn>>

\* ------------------------------------------------------------- reporter

\* console.log('-------'); ('Population:', ...); ('Entropy:', ...)
ReportHead ==
  /\ pc = "reportHead"
  /\ out' = out \o << <<"-------">>,
                      <<"Population:", results[ri][1]>>,
                      <<"Entropy:", results[ri][3]>> >>
  /\ rj' = 1
  /\ pc' = "reportFirst"
  /\ UNCHANGED <<populations, pi, si, kind, t, k, heap, nextId, popcat, samcat,
                 sample, exRews, slackRews, triples, results, ri, hist, fn>>

\* First triples.forEach: the sample size and the mean as it is.
ReportFirst ==
  /\ pc = "reportFirst"
  /\ LET tri == results[ri][2][rj]
     IN out' = out \o << <<"  Sample size:", tri[1]>>,
                         <<"  Avg. Expected reward:", tri[2]>> >>
  /\ IF rj < Len(results[ri][2])
     THEN rj' = rj + 1 /\ pc' = pc
     ELSE rj' = 1 /\ pc' = "reportSecond"
  /\ UNCHANGED <<populations, pi, si, kind, t, k, heap, nextId, popcat, samcat,
                 sample, exRews, slackRews, triples, results, ri, hist, fn>>

\* The second pass printing tri[2], the slack-corrected mean.
ReportSecondSlack ==
  /\ pc = "reportSecond"
  /\ LET tri == results[ri][2][rj]
     IN out' = Append(out, <<"", tri[1], ToPrecision5(tri[3])>>)
  /\ IF rj < Len(results[ri][2])
     THEN /\ rj' = rj + 1
          /\ UNCHANGED <<pc, ri>>
     ELSE /\ rj' = 1
          /\ IF ri < Len(results)
             THEN ri' = ri + 1 /\ pc' = "reportHead"
             ELSE ri' = ri /\ pc' = "done"
  /\ UNCHANGED <<populations, pi, si, kind, t, k, heap, nextId, popcat, samcat,
                 sample, exRews, slackRews, triples, results, hist, fn>>

\* Second triples.forEach: String(tri[0]), String(tri[1].toPrecision(5)).
ReportSecond ==
  /\ pc = "reportSecond"
  /\ LET tri == results[ri][2][rj]
     IN out' = Append(out, <<"", tri[1], ToPrecision5(tri[2])>>)
  /\ IF rj < Len(results[ri][2])
     THEN /\ rj' = rj + 1
          /\ UNCHANGED <<pc, ri>>
     ELSE /\ rj' = 1
          /\ IF ri < Len(results)
             THEN ri' = ri + 1 /\ pc' = "reportHead"
             ELSE ri' = ri /\ pc' = "done"
  /\ UNCHANGED <<populations, pi, si, kind, t, k, heap, nextId, popcat, samcat,
                 sample, exRews, slackRews, triples, results, hist, fn>>

Next ==
  \/ NewPopcat
  \/ PopLearn
  \/ Draw
  \/ NewSamcat
  \/ SamLearn
  \/ ScorePlain
  \/ ScoreSlack
  \/ MeanStep
  \/ EntropyStep
  \/ ReportHead
  \/ ReportFirst
  \/ ReportSecond

Spec == Init /\ [][Next]_vars

\* ------------------------------------------- the pure functions, applied

\* The probabilities reward is tried on: 0, 1 and the fractions between.
Probs == {Frac(n, d) : n \in 0..MaxDen, d \in 1..MaxDen} \cap
         {q \in (0..MaxDen) \X (1..MaxDen) : q[1] <= q[2]}

OpenProbs == {q \in Probs : 0 < q[1] /\ q[1] < q[2]}

\* The inputs of reward are drawn at the start; D grows by learning.
InitFn ==
  /\ DriverInit("off", {<<>>})
  /\ \E prior \in Probs, p \in Probs :
       fn = [FnStart EXCEPT !.prior = prior, !.p = p]

\* D.learn(ev) on the distribution the functions are tried on.
FnLearn ==
  /\ pc = "off"
  /\ WeightSum(fn.D) < MaxFnWeight
  /\ \E ev \in Events : fn' = [fn EXCEPT !.D = Learn(@, ev), !.op = "learn"]
  /\ UNCHANGED driverVars

\* reward(prior, p), and reward(p, prior) beside it.
FnReward ==
  /\ pc = "off"
  /\ fn' = [fn EXCEPT !.rew = reward(fn.prior, fn.p),
                      !.rewSwap = reward(fn.p, fn.prior), !.op = "reward"]
  /\ UNCHANGED driverVars

\* expectedReward(D, D)
FnExpected ==
  /\ pc = "off"
  /\ fn' = [fn EXCEPT !.er = expectedReward(fn.D, fn.D), !.op = "expected"]
  /\ UNCHANGED driverVars

NextFn ==
  \/ FnLearn
  \/ FnReward
  \/ FnExpected

SpecFn == InitFn /\ [][NextFn]_vars

\* ------------------------------------------------------------ properties

Count(ev, s) == Cardinality({i \in 1..Len(s) : s[i] = ev})

IsPrefix(a, b) == Len(a) <= Len(b) /\ \A i \in 1..Len(a) : a[i] = b[i]

RECURSIVE SumWeights(_, _)
SumWeights(cat, evs) ==
  IF evs = {} THEN 0
  ELSE LET e == CHOOSE x \in evs : TRUE
       IN cat.w[e] + SumWeights(cat, evs \ {e})

TotalIsSum(cat) == cat.wsum = SumWeights(cat, DOMAIN cat.w)

\* What one learn(ev) does to a Categorical: before b, after a.
LearnEffect(b, a, ev) ==
  /\ Weight(a, ev) = Weight(b, ev) + 1
  /\ a.wsum = b.wsum + 1
  /\ \A e \in Events \ {ev} : Weight(a, e) = Weight(b, e)

\* A Categorical that has learned the events of s and nothing else.
RECURSIVE Trained(_)
Trained(s) ==
  IF s = <<>> THEN NewCategorical
  ELSE Learn(Trained(SubSeq(s, 1, Len(s) - 1)), s[Len(s)])

ReferenceTrained == popcat # 0 /\ hist.trained # <<>>

\* C1: once the driver has called learn for every element of a population
\* on a new Categorical, prob(e) is exactly (occurrences of e) / |P| for
\* every event, which is 0 for an event that does not occur in P.
C1_ProbIsFrequency ==
  ReferenceTrained =>
    \A e \in Events :
      LET pr == Prob(heap[popcat], e)
      IN /\ pr[1] * Len(pop) = Count(e, pop) * pr[2]
         /\ (Count(e, pop) = 0 => pr[1] = 0)

C1_Witness ==
  /\ ReferenceTrained
  /\ pop = <<"a", "a", "b">>
  /\ Prob(heap[popcat], "a") = <<2, 3>>
  /\ Prob(heap[popcat], "c") = <<0, 1>>

\* C2: in every Categorical the total weight is the sum of the per-event
\* weights, before and after every step; each learn(e) raises weight(e) by
\* exactly 1 and the total by exactly 1 and changes no other weight.
C2_WeightAccounting ==
  [][ /\ \A id \in DOMAIN heap : TotalIsSum(heap[id])
      /\ \A id \in DOMAIN heap' : TotalIsSum(heap'[id])
      /\ pc = "popLearn" => LearnEffect(heap[popcat], heap'[popcat], pop[k])
      /\ pc = "samLearn" => LearnEffect(heap[samcat], heap'[samcat], sample[k])
    ]_vars

C2_Witness ==
  /\ pc = "score"
  /\ WeightSum(heap[samcat]) = 2
  /\ Cardinality(EventsOf(heap[samcat])) = 2
  /\ Cardinality(EventsOf(heap[popcat])) = 3

\* C3: sample() is never called on a Categorical of total weight 0: the
\* reference has learned at least one event before any draw, and the
\* EmptyDistribution failure is never reached.
C3_NeverSampleEmpty ==
  /\ pc # "error"
  /\ pc = "sample" => WeightSum(heap[popcat]) > 0
  /\ hist.draws > 0 => popcat # 0 /\ WeightSum(heap[popcat]) > 0

C3_Witness == hist.draws > 0 /\ pc = "sample" /\ pi = 2

\* C4: expectedReward(D, D) is exactly 0 for a distribution D of at least
\* two distinct events.
C4_SelfRewardZero ==
  (fn.op = "expected" /\ Cardinality(EventsOf(fn.D)) >= 2) => fn.er = 0

C4_Witness ==
  /\ fn.op = "expected"
  /\ Weight(fn.D, "a") = 3
  /\ Weight(fn.D, "b") = 1
  /\ fn.er = 0

\* C5 as stated: antisymmetry fails, i.e. there are prior and p strictly
\* between 0 and 1 with reward(prior, p) different from -reward(p, prior).
C5_AntisymmetryFails ==
  \E prior \in OpenProbs, p \in OpenProbs :
    reward(prior, p) # -reward(p, prior)

\* C5 as amended: reward(prior, p) = -reward(p, prior) for all prior and p
\* in [0, 1]: the difference of two log-odds changes sign when they swap.
C5_Antisymmetric ==
  fn.op = "reward" => fn.rew = -fn.rewSwap

C5_Witness ==
  /\ fn.op = "reward"
  /\ fn.prior \in OpenProbs
  /\ fn.p \in OpenProbs
  /\ fn.rew > 0

NTrials == NPop * NSizes * 2 * SAMPLES_PER_SIZE

\* The n-th trial of a run: populations in order, then sample sizes, then
\* the plain trials before the slack trials, then the trial number.
TrialAt(n) ==
  <<((n - 1) \div (NSizes * 2 * SAMPLES_PER_SIZE)) + 1,
    (((n - 1) \div (2 * SAMPLES_PER_SIZE)) % NSizes) + 1,
    IF ((n - 1) \div SAMPLES_PER_SIZE) % 2 = 0 THEN "plain" ELSE "slack",
    ((n - 1) % SAMPLES_PER_SIZE) + 1>>

\* The driver's position as a tuple that grows, in lexicographic order,
\* with every step: phase of the run, population, phase within the
\* population, sample size, plain / slack / mean, trial, phase within the
\* trial, progress of the loop within that phase.
Rank ==
  IF pc = "done" THEN <<2, 0, 0, 0, 0, 0, 0, 0>>
  ELSE IF pc \in {"reportHead", "reportFirst", "reportSecond"}
  THEN <<1, ri,
         CASE pc = "reportHead" -> 0 [] pc = "reportFirst" -> 1 [] OTHER -> 2,
         rj, 0, 0, 0, 0>>
  ELSE <<0, pi,
         CASE pc = "popStart" -> 0 [] pc = "popLearn" -> 1
           [] pc = "entropy" -> 3 [] OTHER -> 2,
         si,
         IF pc = "mean" THEN 2 ELSE IF kind = "slack" THEN 1 ELSE 0,
         t,
         CASE pc = "sample" -> 0 [] pc = "newSam" -> 1
           [] pc = "samLearn" -> 2 [] pc = "score" -> 3 [] OTHER -> 0,
         Len(sample) + k>>

RECURSIVE LexLess(_, _)
LexLess(a, b) ==
  /\ a # <<>>
  /\ \/ Head(a) < Head(b)
     \/ Head(a) = Head(b) /\ LexLess(Tail(a), Tail(b))

\* Every component of the position is bounded.
RankBounded ==
  Rank \in (0..2) \X (0..NPop) \X (0..3) \X (0..NSizes) \X (0..2)
            \X (0..SAMPLES_PER_SIZE) \X (0..3)
            \X (0..(Len(pop) + 2 * SAMPLE_SIZES[NSizes]))

\* Until the run is done the step of its position can be taken.
NotStuck ==
  CASE pc = "popStart" -> ENABLED NewPopcat
    [] pc = "popLearn" -> ENABLED PopLearn
    [] pc = "sample" -> ENABLED Draw
    [] pc = "newSam" -> ENABLED NewSamcat
    [] pc = "samLearn" -> ENABLED SamLearn
    [] pc = "score" -> ENABLED (ScorePlain \/ ScoreSlack)
    [] pc = "mean" -> ENABLED MeanStep
    [] pc = "entropy" -> ENABLED EntropyStep
    [] pc = "reportHead" -> ENABLED ReportHead
    [] pc = "reportFirst" -> ENABLED ReportFirst
    [] pc = "reportSecond" -> ENABLED ReportSecond
    [] OTHER -> pc = "done"

\* C6: the run terminates (a step is possible until it is done, and every
\* step moves the bounded position forward), and runs exactly
\* P * K * 2 * T trials, each one once and in order (the n-th trial started
\* is always TrialAt(n)), each creating one new candidate, whatever is
\* drawn.
C6_FixedSize ==
  /\ [](/\ RankBounded
        /\ NotStuck
        /\ Len(hist.trials) <= NTrials
        /\ pc = "done" => /\ Len(hist.trials) = NTrials
                          /\ nextId - 1 = NPop + NTrials)
  /\ [][/\ LexLess(Rank, Rank')
        /\ \/ hist'.trials = hist.trials
           \/ hist'.trials =
                Append(hist.trials, TrialAt(Len(hist.trials) + 1))]_vars

C6_Witness == pc = "done" /\ Len(hist.trials) = NTrials /\ NTrials >= 8

\* C7: every trial, slack trials included, is scored on sampleSize events
\* drawn within that trial and on a candidate created within it and
\* trained from just those events; when the means are taken sample() has
\* been called 2 * T * S times for the pair and both lists hold T rewards.
C7_SlackTrialsSeparate ==
  /\ pc = "score" =>
       /\ hist.own = <<sampleSize, 1>>
       /\ Len(sample) = sampleSize
       /\ samcat = nextId - 1
       /\ heap[samcat] = Trained(sample)
  /\ pc = "mean" =>
       /\ hist.draws = 2 * SAMPLES_PER_SIZE * sampleSize
       /\ Len(exRews) = SAMPLES_PER_SIZE
       /\ Len(slackRews) = SAMPLES_PER_SIZE

C7_Witness ==
  /\ pc = "mean"
  /\ sampleSize = 2
  /\ hist.draws = 4 * SAMPLES_PER_SIZE
  /\ exRews[1] # exRews[2]

\* C8: reference and candidate are different objects; once trained, the
\* reference keeps its weights and total through every later step until
\* entropy() has read it; a learn into the candidate changes no other
\* object.
C8_ReferenceFrozen ==
  [][ /\ samcat # 0 => samcat # popcat
      /\ ReferenceTrained => heap[popcat] = hist.trained
      /\ (ReferenceTrained /\ popcat' # 0) =>
           popcat' = popcat /\ heap'[popcat] = heap[popcat]
      /\ pc = "entropy" => hist'.entropyOf = hist.trained
      /\ pc = "samLearn" =>
           \A id \in DOMAIN heap \ {samcat} : heap'[id] = heap[id]
    ]_vars

C8_Witness ==
  /\ pc = "entropy"
  /\ pi = 2
  /\ heap[popcat] = hist.trained
  /\ Len(hist.trials) = NTrials

\* The two lines per sample size of the first pass.
FirstPass(tr) ==
  [n \in 1..(2 * Len(tr)) |->
     IF n % 2 = 1 THEN <<"  Sample size:", tr[(n + 1) \div 2][1]>>
     ELSE <<"  Avg. Expected reward:", tr[n \div 2][2]>>]

\* The line per sample size of the second pass, the mean rounded to five
\* significant digits, or, with exact, as the first pass has it.
SecondPass(tr, exact) ==
  [n \in 1..Len(tr) |->
     <<"", tr[n][1], IF exact THEN tr[n][2] ELSE ToPrecision5(tr[n][2])>>]

RECURSIVE Report(_, _)
Report(rs, exact) ==
  IF rs = <<>> THEN <<>>
  ELSE LET r == Head(rs)
       IN << <<"-------">>, <<"Population:", r[1]>>, <<"Entropy:", r[3]>> >>
          \o FirstPass(r[2]) \o SecondPass(r[2], exact)
          \o Report(Tail(rs), exact)

Reporting == pc \in {"reportHead", "reportFirst", "reportSecond", "done"}

ConfiguredOrder ==
  /\ Len(results) = NPop
  /\ \A i \in 1..NPop :
       /\ results[i][1] = populations[i]
       /\ Len(results[i][2]) = NSizes
       /\ \A j \in 1..NSizes : results[i][2][j][1] = SAMPLE_SIZES[j]

\* C9 as stated: the report is in the fixed order, and the mean of the
\* second pass is the same value as in the first pass.
C9_SameValueInBothPasses ==
  Reporting =>
    /\ ConfiguredOrder
    /\ IsPrefix(out, Report(results, TRUE))
    /\ pc = "done" => out = Report(results, TRUE)

\* C9 as amended: the report is in the fixed order (populations as
\* configured; separator, population, entropy; then a 'Sample size' and
\* 'Avg. Expected reward' pair per sample size in order; then a compact
\* line per sample size in order), and the mean of the second pass is the
\* mean of the first pass rounded to five significant digits.
C9_ReportOrder ==
  Reporting =>
    /\ ConfiguredOrder
    /\ IsPrefix(out, Report(results, FALSE))
    /\ pc = "done" => out = Report(results, FALSE)

C9_Witness ==
  /\ pc = "done"
  /\ Len(out) = NPop * (3 + 3 * NSizes)
  /\ out[6] = <<"  Sample size:", 2>>
  /\ out[5][2] # out[8][3]

\* C10: when a candidate is scored its total weight is the sample size S
\* and each of its events has non-zero weight in the reference; the
\* argument of slack in a slack trial is S.
C10_CandidateWeight ==
  [][ /\ pc = "score" =>
           /\ WeightSum(heap[samcat]) = sampleSize
           /\ \A e \in EventsOf(heap[samcat]) :
                Weight(heap[samcat], e) > 0 /\ Weight(heap[popcat], e) > 0
      /\ (pc = "score" /\ kind = "slack") => hist'.slackArg = sampleSize
    ]_vars

C10_Witness ==
  /\ pc = "score"
  /\ kind = "slack"
  /\ sampleSize = 2
  /\ EventsOf(heap[samcat]) # EventsOf(heap[popcat])
  /\ hist.slackArg = 2

====
